---- MODULE Spec2Model ----
(***************************************************************************)
(* Model of tools/test-connection.py: the command-line entry point that    *)
(* constructs an SSHServerManager, prints usage and the configured server  *)
(* names when no server name is given, and otherwise delegates to          *)
(* manager.test_connection and maps its boolean result to the exit status. *)
(*                                                                         *)
(* The server manager itself is an opaque collaborator: the outcome of     *)
(* importing it, of constructing it and of each test_connection call is    *)
(* chosen in Init and kept for the life of the behaviour, so that several  *)
(* invocations of the program run against the same collaborator state.     *)
(***************************************************************************)
EXTENDS Integers, Sequences, FiniteSets

VARIABLES
    argv,         \* sys.argv of the invocation; argv[1] is the program name
    collab,       \* collaborator state: import / constructor / test outcomes
    pc,           \* position of the process in the script
    manager,      \* the local `manager` of main
    server_name,  \* the local `server_name` of main
    success,      \* the local `success` of main
    iter,         \* position of the for loop over manager.servers.keys()
    stdout,       \* lines written to standard output by this process
    exitCode,     \* exit status of the process, NotExited while it runs
    raised,       \* where an uncaught exception came from, "none" if none
    testCalls,    \* test_connection calls of this process: [name, result]
    keysReads,    \* number of manager.servers.keys() evaluations
    runs          \* finished invocations: [argv, collab, code, out]

vars == <<argv, collab, pc, manager, server_name, success, iter, stdout,
          exitCode, raised, testCalls, keysReads, runs>>

\* ---------------------------------------------------------------- bounds
MaxArgs == 2
MaxServers == 2
MaxRuns == 2

\* ------------------------------------------------------------ input sets
ProgramName == "test-connection.py"
ServerNames == {"prod", "staging", "dev"}
ArgNames == {"prod", "unknown"}
Configs == {"cfgA", "cfgB"}
Outcomes == {"true", "false", "raise"}
NoName == "<unset>"
NotExited == 0 - 1

\* sys.argv: the program name followed by 0..MaxArgs positional arguments
ArgLists ==
    UNION {{<<ProgramName>> \o a : a \in [1..n -> ArgNames]} : n \in 0..MaxArgs}

\* manager.servers: a dict, i.e. entries with pairwise distinct keys in
\* insertion order
Registries ==
    UNION {{r \in [1..n -> [name : ServerNames, config : Configs]] :
              \A i, j \in 1..n : r[i].name = r[j].name => i = j}
           : n \in 0..MaxServers}

NoManager == [constructed |-> FALSE, servers |-> <<>>]

CtorResults ==
    {[raises |-> TRUE, servers |-> <<>>]} \cup
    {[raises |-> FALSE, servers |-> r] : r \in Registries}

CollabStates ==
    [importOk : BOOLEAN, ctor : CtorResults, outcome : [ArgNames -> Outcomes]]

\* ------------------------------------------------------------- helpers
SUCCESS == 0
FAILURE == 1

Keys(servers) == [i \in 1..Len(servers) |-> servers[i].name]
KeySet(servers) == {servers[i].name : i \in 1..Len(servers)}

UsageLine == <<"Usage: python test-connection.py <server_name>">>
BlankLine == <<"">>
HeaderLine == <<"Available servers:">>
ServerLine(server) == <<"  - ", server>>

NeedsUsage(args) == Len(args) < 2

\* Mutant: the last argument is taken instead of the first
ServerNameLast(args) == args[Len(args)]

ServerNameOf(args) == args[2]

\* Mutant: the result is mapped the wrong way round
ExitStatusInverted(ok) == IF ok THEN FAILURE ELSE SUCCESS

\* Mutant: a failed test is never reported
ExitStatusAlwaysZero(ok) == SUCCESS

ExitStatus(ok) == IF ok THEN SUCCESS ELSE FAILURE

Occurrences(line, out) == Cardinality({i \in 1..Len(out) : out[i] = line})

\* ---------------------------------------------------------------- Init
Init ==
    /\ argv \in ArgLists
    /\ collab \in CollabStates
    /\ pc = "import"
    /\ manager = NoManager
    /\ server_name = NoName
    /\ success = FALSE
    /\ iter = 0
    /\ stdout = <<>>
    /\ exitCode = NotExited
    /\ raised = "none"
    /\ testCalls = <<>>
    /\ keysReads = 0
    /\ runs = <<>>

\* An uncaught exception: traceback on stderr, exit status 1
Uncaught(where) ==
    /\ raised' = where
    /\ exitCode' = 1
    /\ pc' = "exited"

\* ------------------------------------------------------------- actions
ImportManager ==
    /\ pc = "import"
    /\ IF collab.importOk
       THEN /\ pc' = "construct"
            /\ UNCHANGED <<raised, exitCode>>
       ELSE Uncaught("import")
    /\ UNCHANGED <<argv, collab, manager, server_name, success, iter, stdout,
                   testCalls, keysReads, runs>>

\* Mutant: a constructor failure is caught and main carries on
ConstructSwallow ==
    /\ pc = "construct"
    /\ IF collab.ctor.raises
       THEN /\ raised' = "construct"
            /\ manager' = [constructed |-> TRUE, servers |-> <<>>]
       ELSE /\ manager' = [constructed |-> TRUE, servers |-> collab.ctor.servers]
            /\ UNCHANGED raised
    /\ pc' = "check_args"
    /\ UNCHANGED <<argv, collab, server_name, success, iter, stdout, exitCode,
                   testCalls, keysReads, runs>>

Construct ==
    /\ pc = "construct"
    /\ IF collab.ctor.raises
       THEN /\ Uncaught("construct")
            /\ UNCHANGED manager
       ELSE /\ manager' = [constructed |-> TRUE, servers |-> collab.ctor.servers]
            /\ pc' = "check_args"
            /\ UNCHANGED <<raised, exitCode>>
    /\ UNCHANGED <<argv, collab, server_name, success, iter, stdout,
                   testCalls, keysReads, runs>>

CheckArgs ==
    /\ pc = "check_args"
    /\ pc' = IF NeedsUsage(argv) THEN "usage" ELSE "take_arg"
    /\ UNCHANGED <<argv, collab, manager, server_name, success, iter, stdout,
                   exitCode, raised, testCalls, keysReads, runs>>

PrintUsage ==
    /\ pc = "usage"
    /\ stdout' = stdout \o <<UsageLine, BlankLine, HeaderLine>>
    /\ keysReads' = keysReads + 1
    /\ iter' = 1
    /\ pc' = "loop"
    /\ UNCHANGED <<argv, collab, manager, server_name, success, exitCode,
                   raised, testCalls, runs>>

\* Mutant: the loop prints the first key on every iteration
PrintServerFirstOnly ==
    /\ pc = "loop"
    /\ iter <= Len(manager.servers)
    /\ stdout' = Append(stdout, ServerLine(Keys(manager.servers)[1]))
    /\ iter' = iter + 1
    /\ UNCHANGED <<argv, collab, pc, manager, server_name, success, exitCode,
                   raised, testCalls, keysReads, runs>>

\* Mutant: the loop walks the keys from the last to the first
PrintServerReversed ==
    /\ pc = "loop"
    /\ iter <= Len(manager.servers)
    /\ stdout' = Append(stdout,
           ServerLine(Keys(manager.servers)[Len(manager.servers) + 1 - iter]))
    /\ iter' = iter + 1
    /\ UNCHANGED <<argv, collab, pc, manager, server_name, success, exitCode,
                   raised, testCalls, keysReads, runs>>

\* Mutant: the loop consumes the registry (popitem) while printing it
PrintServerPop ==
    /\ pc = "loop"
    /\ iter <= Len(manager.servers)
    /\ stdout' = Append(stdout, ServerLine(Keys(manager.servers)[iter]))
    /\ manager' = [manager EXCEPT !.servers = Tail(@)]
    /\ iter' = iter
    /\ UNCHANGED <<argv, collab, pc, server_name, success, exitCode,
                   raised, testCalls, keysReads, runs>>

PrintServer ==
    /\ pc = "loop"
    /\ iter <= Len(manager.servers)
    /\ stdout' = Append(stdout, ServerLine(Keys(manager.servers)[iter]))
    /\ iter' = iter + 1
    /\ UNCHANGED <<argv, collab, pc, manager, server_name, success, exitCode,
                   raised, testCalls, keysReads, runs>>

ExitUsage ==
    /\ pc = "loop"
    /\ iter > Len(manager.servers)
    /\ exitCode' = 1
    /\ pc' = "exited"
    /\ UNCHANGED <<argv, collab, manager, server_name, success, iter, stdout,
                   raised, testCalls, keysReads, runs>>

\* Mutant: the name is looked up in the registry before it is tested
TakeArgValidated ==
    /\ pc = "take_arg"
    /\ server_name' = ServerNameOf(argv)
    /\ keysReads' = keysReads + 1
    /\ IF ServerNameOf(argv) \in KeySet(manager.servers)
       THEN /\ pc' = "test"
            /\ UNCHANGED exitCode
       ELSE /\ pc' = "exited"
            /\ exitCode' = 1
    /\ UNCHANGED <<argv, collab, manager, success, iter, stdout,
                   raised, testCalls, runs>>

TakeArg ==
    /\ pc = "take_arg"
    /\ server_name' = ServerNameOf(argv)
    /\ pc' = "test"
    /\ UNCHANGED <<argv, collab, manager, success, iter, stdout, exitCode,
                   raised, testCalls, keysReads, runs>>

TestConnection ==
    /\ pc = "test"
    /\ LET result == collab.outcome[server_name] IN
       /\ testCalls' = Append(testCalls, [name |-> server_name, result |-> result])
       /\ IF result = "raise"
          THEN /\ Uncaught("test_connection")
               /\ UNCHANGED success
          ELSE /\ success' = (result = "true")
               /\ pc' = "exit"
               /\ UNCHANGED <<raised, exitCode>>
    /\ UNCHANGED <<argv, collab, manager, server_name, iter, stdout,
                   keysReads, runs>>

\* Mutant: a failed test is retried once before the process exits
ExitRetry ==
    /\ pc = "exit"
    /\ IF ~success /\ Len(testCalls) < 2
       THEN /\ pc' = "test"
            /\ UNCHANGED exitCode
       ELSE /\ exitCode' = ExitStatus(success)
            /\ pc' = "exited"
    /\ UNCHANGED <<argv, collab, manager, server_name, success, iter, stdout,
                   raised, testCalls, keysReads, runs>>

\* Mutant: a successful run leaves the collaborator in a state in which the
\* same server no longer tests successfully
ExitLeavesState ==
    /\ pc = "exit"
    /\ exitCode' = ExitStatus(success)
    /\ pc' = "exited"
    /\ collab' = IF success
                 THEN [collab EXCEPT !.outcome[server_name] = "false"]
                 ELSE collab
    /\ UNCHANGED <<argv, manager, server_name, success, iter, stdout,
                   raised, testCalls, keysReads, runs>>

Exit ==
    /\ pc = "exit"
    /\ exitCode' = ExitStatus(success)
    /\ pc' = "exited"
    /\ UNCHANGED <<argv, collab, manager, server_name, success, iter, stdout,
                   raised, testCalls, keysReads, runs>>

\* The same command line is run again as a new process against the
\* collaborator state the previous process left behind.
Reinvoke ==
    /\ pc = "exited"
    /\ Len(runs) < MaxRuns
    /\ runs' = Append(runs, [argv |-> argv, collab |-> collab,
                             code |-> exitCode, out |-> stdout])
    /\ pc' = "import"
    /\ manager' = NoManager
    /\ server_name' = NoName
    /\ success' = FALSE
    /\ iter' = 0
    /\ stdout' = <<>>
    /\ exitCode' = NotExited
    /\ raised' = "none"
    /\ testCalls' = <<>>
    /\ keysReads' = 0
    /\ UNCHANGED <<argv, collab>>

Next ==
    \/ ImportManager
    \/ Construct
    \/ CheckArgs
    \/ PrintUsage
    \/ PrintServer
    \/ ExitUsage
    \/ TakeArg
    \/ TestConnection
    \/ Exit
    \/ Reinvoke

Spec == Init /\ [][Next]_vars

TypeOK ==
    /\ argv \in ArgLists
    /\ collab \in CollabStates
    /\ pc \in {"import", "construct", "check_args", "usage", "loop",
               "take_arg", "test", "exit", "exited"}
    /\ exitCode \in {NotExited, 0, 1}
    /\ Len(runs) <= MaxRuns

FairSpec == Spec /\ WF_vars(Next)

\* ---------------------------------------------------------------- claims
Exited == pc = "exited"
UsageOutput(servers) ==
    <<UsageLine, BlankLine, HeaderLine>> \o
    [i \in 1..Len(servers) |-> ServerLine(servers[i].name)]
IsPrefix(s, t) == Len(s) <= Len(t) /\ SubSeq(t, 1, Len(s)) = s

\* C1: every invocation with no positional argument that enters the usage
\* path exits; it ends with exit code 1, and when it has ended through the
\* usage path its standard output holds the line of every key of
\* manager.servers exactly once.
C1_UsageListsEveryServerOnce ==
    /\ [](  (Exited /\ NeedsUsage(argv)) =>
              /\ exitCode = 1
              /\ manager.constructed =>
                    /\ raised = "none"
                    /\ \A n \in KeySet(manager.servers) :
                          Occurrences(ServerLine(n), stdout) = 1)
    /\ (pc = "usage") ~> Exited

C1_Witness ==
    /\ Exited
    /\ Len(argv) = 1
    /\ KeySet(manager.servers) = {"prod", "staging"}
    /\ exitCode = 1
    /\ Occurrences(ServerLine("prod"), stdout) = 1
    /\ Occurrences(ServerLine("staging"), stdout) = 1

\* C2: when the first positional argument is a key of the registry and
\* test_connection returns true for it, the process ends with exit code 0.
C2_RegisteredAndReachableExitsZero ==
    (/\ Exited
     /\ manager.constructed
     /\ ~NeedsUsage(argv)
     /\ argv[2] \in KeySet(manager.servers)
     /\ collab.outcome[argv[2]] = "true") => exitCode = 0

C2_Witness ==
    /\ Exited
    /\ Len(argv) = 2
    /\ argv[2] = "prod"
    /\ KeySet(manager.servers) = {"prod"}
    /\ testCalls = <<[name |-> "prod", result |-> "true"]>>
    /\ exitCode = 0

\* C3: when test_connection returns false for the given name, registered or
\* not, the process ends with exit code 1, which is also the exit code of an
\* invocation without a server name.
C3_FailedTestExitsOne ==
    /\ (/\ Exited
        /\ manager.constructed
        /\ ~NeedsUsage(argv)
        /\ collab.outcome[argv[2]] = "false") => exitCode = 1
    /\ (Exited /\ NeedsUsage(argv)) => exitCode = 1

C3_Witness ==
    /\ Exited
    /\ Len(argv) = 2
    /\ argv[2] = "unknown"
    /\ "unknown" \notin KeySet(manager.servers)
    /\ testCalls = <<[name |-> "unknown", result |-> "false"]>>
    /\ exitCode = 1

\* C4: every earlier invocation of the same command line left the
\* collaborator state as it found it, and ended with the exit code with which
\* the current invocation ends.
C4_RepeatedInvocationsAgree ==
    \A i \in 1..Len(runs) :
        /\ runs[i].argv = argv
        /\ runs[i].collab = collab
        /\ \A j \in 1..Len(runs) : runs[i].code = runs[j].code
        /\ Exited => runs[i].code = exitCode

C4_Witness ==
    /\ Exited
    /\ Len(runs) >= 1
    /\ runs[1].code = 0
    /\ exitCode = 0
    /\ Len(testCalls) = 1

\* C5: an exception of the collaborator is never caught: the process has
\* ended, with a status other than 0, as soon as one was raised; a failing
\* constructor ends it with nothing printed and test_connection not called.
C5_CollaboratorExceptionsPropagate ==
    /\ raised # "none" => (Exited /\ exitCode # 0 /\ exitCode # NotExited)
    /\ raised = "construct" => (stdout = <<>> /\ testCalls = <<>>)
    /\ (manager.constructed \/ pc \in {"check_args", "usage", "loop", "take_arg",
                                       "test", "exit"})
          => ~collab.ctor.raises
    /\ (Exited /\ collab.importOk /\ collab.ctor.raises) => raised = "construct"
    /\ \A i \in 1..Len(testCalls) :
          testCalls[i].result = "raise" => raised = "test_connection"

C5_Witness ==
    /\ Exited
    /\ raised = "construct"
    /\ Len(argv) >= 2
    /\ exitCode = 1
    /\ stdout = <<>>
    /\ testCalls = <<>>

\* C6 as stated: without a positional argument test_connection is never
\* called; with one it has been called exactly once when the process has
\* exited, and nothing is printed.
C6_Original ==
    /\ NeedsUsage(argv) => testCalls = <<>>
    /\ ~NeedsUsage(argv) => stdout = <<>>
    /\ (Exited /\ ~NeedsUsage(argv)) => Len(testCalls) = 1

\* C6 as amended: without a positional argument test_connection is never
\* called; with one, nothing is printed, test_connection is called at most
\* once, and it has been called exactly once when a process whose manager
\* was constructed has exited.
C6_PathsExclusiveNoRetry ==
    /\ NeedsUsage(argv) => testCalls = <<>>
    /\ ~NeedsUsage(argv) => (stdout = <<>> /\ Len(testCalls) <= 1)
    /\ (Exited /\ ~NeedsUsage(argv) /\ manager.constructed) => Len(testCalls) = 1
    /\ (Exited /\ ~manager.constructed) => testCalls = <<>>

C6_Witness ==
    /\ Exited
    /\ Len(argv) >= 2
    /\ manager.constructed
    /\ Len(testCalls) = 1
    /\ testCalls[1].result = "false"
    /\ stdout = <<>>

\* C7: with one or more positional arguments every test_connection call
\* names the first of them, the usage path is not taken, and the exit code
\* follows the collaborator's answer for the first argument alone.
C7_FirstArgumentOnly ==
    ~NeedsUsage(argv) =>
        /\ \A i \in 1..Len(testCalls) : testCalls[i].name = argv[2]
        /\ stdout = <<>>
        /\ pc \notin {"usage", "loop"}
        /\ (Exited /\ manager.constructed) =>
              /\ Len(testCalls) = 1
              /\ raised = "none" =>
                    (exitCode = 0 <=> collab.outcome[argv[2]] = "true")

C7_Witness ==
    /\ Exited
    /\ Len(argv) = 3
    /\ argv[2] = "prod"
    /\ argv[3] = "unknown"
    /\ collab.outcome["prod"] = "true"
    /\ collab.outcome["unknown"] = "false"
    /\ testCalls = <<[name |-> "prod", result |-> "true"]>>
    /\ exitCode = 0

\* C8: a supplied name reaches test_connection unchanged whether or not it is
\* a key of the registry, the registry keys are not consulted first, and the
\* exit code is 0 exactly when that call returned true.
C8_NameNotValidatedLocally ==
    (Exited /\ manager.constructed /\ ~NeedsUsage(argv)) =>
        /\ keysReads = 0
        /\ Len(testCalls) = 1
        /\ testCalls[1].name = argv[2]
        /\ testCalls[1].result # "raise" =>
              (exitCode = 0 <=> testCalls[1].result = "true")

C8_Witness ==
    /\ Exited
    /\ Len(argv) = 2
    /\ argv[2] = "unknown"
    /\ KeySet(manager.servers) = {"prod"}
    /\ testCalls = <<[name |-> "unknown", result |-> "false"]>>
    /\ keysReads = 0
    /\ exitCode = 1

\* C9: from construction to exit the registry of the manager holds the
\* entries the constructor gave it, the collaborator state is the one every
\* earlier invocation saw, and the keys are read only on the usage path.
C9_RegistryNeverMutated ==
    /\ manager.constructed => manager.servers = collab.ctor.servers
    /\ \A i \in 1..Len(runs) : runs[i].collab = collab
    /\ keysReads > 0 => NeedsUsage(argv)
    /\ keysReads <= 1

C9_Witness ==
    /\ Exited
    /\ Len(argv) = 1
    /\ keysReads = 1
    /\ Len(manager.servers) = 2
    /\ manager.servers = collab.ctor.servers
    /\ Len(stdout) = 5

\* C10: on the usage path the output grows in the order usage line, header,
\* one line per key in the enumeration order of the registry, and the process
\* has an exit code, which is 1, only once all of it is written; this holds
\* for the empty registry too.
C10_UsageOutputOrder ==
    (NeedsUsage(argv) /\ manager.constructed) =>
        /\ IsPrefix(stdout, UsageOutput(manager.servers))
        /\ exitCode # NotExited =>
              /\ stdout = UsageOutput(manager.servers)
              /\ exitCode = 1

C10_Witness ==
    /\ Exited
    /\ Len(argv) = 1
    /\ Keys(manager.servers) = <<"staging", "prod">>
    /\ stdout = <<UsageLine, BlankLine, HeaderLine,
                  ServerLine("staging"), ServerLine("prod")>>
    /\ exitCode = 1

C10_WitnessEmptyRegistry ==
    /\ Exited
    /\ Len(argv) = 1
    /\ manager.constructed
    /\ manager.servers = <<>>
    /\ stdout = <<UsageLine, BlankLine, HeaderLine>>
    /\ exitCode = 1
====
